---------------------------- MODULE Spec2Model ----------------------------
(***************************************************************************)
(* A model of repl/tourist.py: the class Tourist, a JSON-RPC 2.0 client    *)
(* that talks to a child process ("target/debug/tourist serve") over the   *)
(* child's stdin and stdout, one JSON object per line.                     *)
(*                                                                         *)
(* Bytes.  A byte stream is a sequence of units.  A unit is a TLA+ string: *)
(* one character where the character matters to the framing or the JSON    *)
(* grammar (quote, backslash, newline, space, brackets, digits, ...), or a  *)
(* run of plain ASCII text that needs no escaping (an identifier such as   *)
(* "list_tours", a literal such as "true").  The unit "\n" is the newline  *)
(* and "\\" the backslash.                                                  *)
(*                                                                         *)
(* JSON values (what json.dumps takes and json.loads gives) are records    *)
(* tagged by t: "str" (s, a sequence of units), "int" (n), "bool" (b),      *)
(* "null", "arr" (items) and "obj" (members, a sequence of <<key, value>>  *)
(* in insertion order, key a sequence of units).                           *)
(***************************************************************************)
EXTENDS Integers, Sequences, FiniteSets, TLC

-----------------------------------------------------------------------------
(* JSON values *)

JStr(s) == [t |-> "str", s |-> s]
JInt(n) == [t |-> "int", n |-> n]
JBool(b) == [t |-> "bool", b |-> b]
JNull == [t |-> "null"]
JArr(items) == [t |-> "arr", items |-> items]
JObj(members) == [t |-> "obj", members |-> members]

\* Python: key in d
HasKey(v, k) == v.t = "obj" /\ \E i \in 1..Len(v.members) : v.members[i][1] = k

\* Python: d[key], for a key that is present
Get(v, k) == v.members[CHOOSE i \in 1..Len(v.members) : v.members[i][1] = k][2]

\* Python: d[key] = value (a repeated key keeps its place and takes the new value)
SetMember(members, k, val) ==
    IF \E i \in 1..Len(members) : members[i][1] = k
    THEN [i \in 1..Len(members) |->
            IF members[i][1] = k THEN <<k, val>> ELSE members[i]]
    ELSE Append(members, <<k, val>>)

-----------------------------------------------------------------------------
(* json.dumps: separators (", ", ": "), ensure_ascii, no indent *)

Digits == <<"0", "1", "2", "3", "4", "5", "6", "7", "8", "9">>

RECURSIVE NatBytes(_)
NatBytes(n) ==
    IF n < 10 THEN <<Digits[n + 1]>>
    ELSE NatBytes(n \div 10) \o <<Digits[(n % 10) + 1]>>

IntBytes(n) == IF n < 0 THEN <<"-">> \o NatBytes(-n) ELSE NatBytes(n)

\* EscapeUnit, were it to escape only what ends a string
EscapeUnitQuoteOnly(c) ==
    CASE c = "\"" -> <<"\\", "\"">>
      [] c = "\\" -> <<"\\", "\\">>
      [] OTHER    -> <<c>>

\* json.encoder: py_encode_basestring_ascii escapes quote, backslash and
\* every control character
EscapeUnit(c) ==
    CASE c = "\n" -> <<"\\", "n">>
      [] c = "\"" -> <<"\\", "\"">>
      [] c = "\\" -> <<"\\", "\\">>
      [] OTHER    -> <<c>>

RECURSIVE EscapeStr(_)
EscapeStr(s) ==
    IF s = <<>> THEN <<>> ELSE EscapeUnit(Head(s)) \o EscapeStr(Tail(s))

StrBytes(s) == <<"\"">> \o EscapeStr(s) \o <<"\"">>

RECURSIVE Serialize(_, _, _)
RECURSIVE JoinItems(_, _, _)
RECURSIVE JoinMembers(_, _, _)

JoinItems(items, itemSep, keySep) ==
    IF items = <<>> THEN <<>>
    ELSE IF Len(items) = 1 THEN Serialize(items[1], itemSep, keySep)
    ELSE Serialize(items[1], itemSep, keySep) \o itemSep
            \o JoinItems(Tail(items), itemSep, keySep)

JoinMembers(members, itemSep, keySep) ==
    IF members = <<>> THEN <<>>
    ELSE LET one == StrBytes(members[1][1]) \o keySep
                        \o Serialize(members[1][2], itemSep, keySep)
         IN  IF Len(members) = 1 THEN one
             ELSE one \o itemSep \o JoinMembers(Tail(members), itemSep, keySep)

Serialize(v, itemSep, keySep) ==
    CASE v.t = "str"  -> StrBytes(v.s)
      [] v.t = "int"  -> IntBytes(v.n)
      [] v.t = "bool" -> IF v.b THEN <<"true">> ELSE <<"false">>
      [] v.t = "null" -> <<"null">>
      [] v.t = "arr"  -> <<"[">> \o JoinItems(v.items, itemSep, keySep) \o <<"]">>
      [] v.t = "obj"  -> <<"{">> \o JoinMembers(v.members, itemSep, keySep) \o <<"}">>

\* json.dumps(obj) with the default separators
Dumps(v) == Serialize(v, <<",", " ">>, <<":", " ">>)

-----------------------------------------------------------------------------
(* json.loads: a parse result is [ok, v, i], i the index after the value *)

Fail == [ok |-> FALSE, v |-> JNull, i |-> 0]
Parsed(v, i) == [ok |-> TRUE, v |-> v, i |-> i]

Whitespace == {" ", "\n", "\t", "\r"}
DigitUnits == {"0", "1", "2", "3", "4", "5", "6", "7", "8", "9"}
DigitVal(c) == CHOOSE d \in 0..9 : Digits[d + 1] = c

RECURSIVE SkipWs(_, _)
SkipWs(b, i) ==
    IF i <= Len(b) /\ b[i] \in Whitespace THEN SkipWs(b, i + 1) ELSE i

\* ParseStr, were it to know no backslash escape
RECURSIVE ParseStrNoEscape(_, _, _)
ParseStrNoEscape(b, i, acc) ==
    IF i > Len(b) THEN Fail
    ELSE IF b[i] = "\"" THEN Parsed(JStr(acc), i + 1)
    ELSE IF b[i] \in {"\n", "\t", "\r", "\\"} THEN Fail
    ELSE ParseStrNoEscape(b, i + 1, Append(acc, b[i]))

\* the body of a string, from the unit after the opening quote (strict:
\* a raw control character inside a string is an error)
RECURSIVE ParseStr(_, _, _)
ParseStr(b, i, acc) ==
    IF i > Len(b) THEN Fail
    ELSE IF b[i] = "\"" THEN Parsed(JStr(acc), i + 1)
    ELSE IF b[i] \in {"\n", "\t", "\r"} THEN Fail
    ELSE IF b[i] = "\\"
         THEN IF i + 1 > Len(b) THEN Fail
              ELSE IF b[i + 1] = "n" THEN ParseStr(b, i + 2, Append(acc, "\n"))
              ELSE IF b[i + 1] = "\"" THEN ParseStr(b, i + 2, Append(acc, "\""))
              ELSE IF b[i + 1] = "\\" THEN ParseStr(b, i + 2, Append(acc, "\\"))
              ELSE Fail
    ELSE ParseStr(b, i + 1, Append(acc, b[i]))

RECURSIVE ParseNat(_, _, _)
ParseNat(b, i, acc) ==
    IF i <= Len(b) /\ b[i] \in DigitUnits
    THEN ParseNat(b, i + 1, 10 * acc + DigitVal(b[i]))
    ELSE [n |-> acc, i |-> i]

\* an integer: an optional "-", then "0" or a digit 1-9 and more digits
ParseInt(b, i) ==
    LET neg == b[i] = "-"
        j   == IF neg THEN i + 1 ELSE i
    IN  IF j > Len(b) \/ b[j] \notin DigitUnits THEN Fail
        ELSE IF b[j] = "0" THEN Parsed(JInt(0), j + 1)
        ELSE LET r == ParseNat(b, j, 0)
             IN  Parsed(JInt(IF neg THEN -r.n ELSE r.n), r.i)

RECURSIVE ParseValue(_, _)
RECURSIVE ParseItems(_, _, _)
RECURSIVE ParseMembers(_, _, _)
RECURSIVE ParseMember(_, _, _, _)

\* the elements of an array, from the first element; acc holds those parsed
ParseItems(b, i, acc) ==
    CHOOSE out \in
      { IF ~r.ok THEN Fail
        ELSE LET j == SkipWs(b, r.i)
             IN  IF j > Len(b) THEN Fail
                 ELSE IF b[j] = "]" THEN Parsed(JArr(Append(acc, r.v)), j + 1)
                 ELSE IF b[j] = ","
                      THEN ParseItems(b, SkipWs(b, j + 1), Append(acc, r.v))
                 ELSE Fail
        : r \in {ParseValue(b, i)} } : TRUE

\* the value of a member and what follows it; k is the parsed key, c the
\* index of the colon
ParseMember(b, k, c, acc) ==
    CHOOSE out \in
      { IF ~r.ok THEN Fail
        ELSE LET j    == SkipWs(b, r.i)
                 acc2 == SetMember(acc, k.v.s, r.v)
             IN  IF j > Len(b) THEN Fail
                 ELSE IF b[j] = "}" THEN Parsed(JObj(acc2), j + 1)
                 ELSE IF b[j] = "," THEN ParseMembers(b, SkipWs(b, j + 1), acc2)
                 ELSE Fail
        : r \in {ParseValue(b, SkipWs(b, c + 1))} } : TRUE

\* the members of an object, from the first key; acc holds those parsed
ParseMembers(b, i, acc) ==
    IF i > Len(b) \/ b[i] # "\"" THEN Fail
    ELSE CHOOSE out \in
           { IF ~k.ok THEN Fail
             ELSE LET c == SkipWs(b, k.i)
                  IN  IF c > Len(b) \/ b[c] # ":" THEN Fail
                      ELSE ParseMember(b, k, c, acc)
             : k \in {ParseStr(b, i + 1, <<>>)} } : TRUE

ParseValue(b, i) ==
    IF i > Len(b) THEN Fail
    ELSE CASE b[i] = "\""  -> ParseStr(b, i + 1, <<>>)
           [] b[i] = "["   ->
                LET j == SkipWs(b, i + 1)
                IN  IF j <= Len(b) /\ b[j] = "]" THEN Parsed(JArr(<<>>), j + 1)
                    ELSE ParseItems(b, j, <<>>)
           [] b[i] = "{"   ->
                LET j == SkipWs(b, i + 1)
                IN  IF j <= Len(b) /\ b[j] = "}" THEN Parsed(JObj(<<>>), j + 1)
                    ELSE ParseMembers(b, j, <<>>)
           [] b[i] = "true"  -> Parsed(JBool(TRUE), i + 1)
           [] b[i] = "false" -> Parsed(JBool(FALSE), i + 1)
           [] b[i] = "null"  -> Parsed(JNull, i + 1)
           [] b[i] = "-" \/ b[i] \in DigitUnits -> ParseInt(b, i)
           [] OTHER -> Fail

\* json.loads(s): one value, whitespace allowed around it, nothing after it;
\* ok = FALSE stands for json.JSONDecodeError
Loads(b) ==
    CHOOSE out \in
      { IF r.ok /\ SkipWs(b, r.i) = Len(b) + 1 THEN r ELSE Fail
        : r \in {ParseValue(b, SkipWs(b, 1))} } : TRUE

-----------------------------------------------------------------------------
(* State *)

VARIABLES
    proc,        \* self.proc: the handle made by Popen
    wbuf,        \* the buffer of self.proc.stdin (a BufferedWriter)
    stdinPipe,   \* bytes flushed to the child's stdin and not yet read by it
    stdoutPipe,  \* bytes the child wrote to its stdout, not yet read by readline
    childIn,     \* the child's end of its stdin: "open" or "closed"
    childOut,    \* the child's end of its stdout: "open" or "closed"
    inbox,       \* request lines the child has read and not answered
    pc,          \* per caller: where it is in __rpc
    cur,         \* per caller: the call it makes or made last
    outcome,     \* per caller: how its last call ended
    writes,      \* the number of stdin.write calls made
    reads,       \* the number of readline calls that returned
    extras,      \* the number of lines the child wrote in answer to no request
    wrote,       \* the number of lines the child wrote to its stdout
    sawEnd       \* a call met end of stream or a broken pipe

vars == << proc, wbuf, stdinPipe, stdoutPipe, childIn, childOut, inbox, pc, cur,
           outcome, writes, reads, extras, wrote, sawEnd >>

-----------------------------------------------------------------------------
(* Bounds and inputs *)

\* at most this many requests are written by one client
MaxCalls == 2

\* at most this many lines the child writes that answer no request
MaxExtra == 1

\* the thread of the __main__ block, and a second thread sharing the client
Callers == {"main", "worker"}

S(c) == JStr(<<c>>)

\* argument values for a wrapper's parameters, by position
ArgTuples ==
    { << JStr(<<"My tour", "\n", "2">>), JInt(5), JBool(TRUE), S("README.md") >>,
      << JInt(7), JStr(<<"\"", "A stop", "\\">>),
         JObj(<< <<(<<"title">>), JNull>> >>), JArr(<<JInt(10), S("x")>>) >> }

-----------------------------------------------------------------------------
(* The wrapper methods of class Tourist.  Each gives the attribute of self *)
(* it calls, and the method name and the argument list it passes.          *)

Delegate(attr, method, args) == [attr |-> attr, method |-> method, args |-> args]

list_tours == Delegate("__rpc", "list_tours", <<>>)
create_tour(title) == Delegate("__rpc", "create_tour", <<title>>)
open_tour(path, edit) == Delegate("__rpc", "open_tour", <<path, edit>>)
set_tour_edit(tour_id, edit) == Delegate("__rpc", "set_tour_edit", <<tour_id, edit>>)
view_tour(tour_id) == Delegate("__rpc", "view_tour", <<tour_id>>)
edit_tour_metadata(tour_id, delta) ==
    Delegate("__rpc", "edit_tour_metadata", <<tour_id, delta>>)
forget_tour(tour_id) == Delegate("__rpc", "forget_tour", <<tour_id>>)
create_stop(tour_id, title, path, line) ==
    Delegate("__rpc", "create_stop", <<tour_id, title, path, line>>)
view_stop(tour_id, stop_id) == Delegate("__rpc", "view_stop", <<tour_id, stop_id>>)
edit_stop_metadata(tour_id, stop_id, delta) ==
    Delegate("__rpc", "edit_stop_metadata", <<tour_id, stop_id, delta>>)
link_stop(tour_id, stop_id, other_tour_id, other_stop_id) ==
    Delegate("__rpc", "link_stop", <<tour_id, stop_id, other_tour_id, other_stop_id>>)
locate_stop(tour_id, stop_id, naive) ==
    Delegate("__rpc", "locate_stop", <<tour_id, stop_id>>)
remove_stop(tour_id, stop_id) == Delegate("__rpc", "remove_stop", <<tour_id, stop_id>>)
refresh_tour(tour_id, commit) == Delegate("__rpi", "refresh_tour", <<tour_id, commit>>)
save_tour(tour_id, path) == Delegate("__rpc", "save_tour", <<tour_id, path>>)
save_all == Delegate("__rpc", "save_all", <<>>)
delete_tour(tour_id) == Delegate("__rpc", "delete_tour", <<tour_id>>)
index_repository(repo_name, path) ==
    Delegate("__rpc", "index_repository", <<repo_name, path>>)

\* the number of parameters each wrapper declares (self not counted)
Arity ==
    [ list_tours |-> 0, create_tour |-> 1, open_tour |-> 2, set_tour_edit |-> 2,
      view_tour |-> 1, edit_tour_metadata |-> 2, forget_tour |-> 1,
      create_stop |-> 4, view_stop |-> 2, edit_stop_metadata |-> 3,
      link_stop |-> 4, locate_stop |-> 3, remove_stop |-> 2, refresh_tour |-> 2,
      save_tour |-> 2, save_all |-> 0, delete_tour |-> 1, index_repository |-> 2 ]

Wrappers == DOMAIN Arity

\* tourist.<w>(*a): the wrapper named w applied to the arguments a
Apply(w, a) ==
    CASE w = "list_tours"         -> list_tours
      [] w = "create_tour"        -> create_tour(a[1])
      [] w = "open_tour"          -> open_tour(a[1], a[2])
      [] w = "set_tour_edit"      -> set_tour_edit(a[1], a[2])
      [] w = "view_tour"          -> view_tour(a[1])
      [] w = "edit_tour_metadata" -> edit_tour_metadata(a[1], a[2])
      [] w = "forget_tour"        -> forget_tour(a[1])
      [] w = "create_stop"        -> create_stop(a[1], a[2], a[3], a[4])
      [] w = "view_stop"          -> view_stop(a[1], a[2])
      [] w = "edit_stop_metadata" -> edit_stop_metadata(a[1], a[2], a[3])
      [] w = "link_stop"          -> link_stop(a[1], a[2], a[3], a[4])
      [] w = "locate_stop"        -> locate_stop(a[1], a[2], a[3])
      [] w = "remove_stop"        -> remove_stop(a[1], a[2])
      [] w = "refresh_tour"       -> refresh_tour(a[1], a[2])
      [] w = "save_tour"          -> save_tour(a[1], a[2])
      [] w = "save_all"           -> save_all
      [] w = "delete_tour"        -> delete_tour(a[1])
      [] w = "index_repository"   -> index_repository(a[1], a[2])

\* the attributes class Tourist defines that a wrapper can call: inside the
\* class, self.__rpc is self._Tourist__rpc, and nothing defines _Tourist__rpi
Defined == {"__rpc"}

-----------------------------------------------------------------------------
(* Tourist.__rpc *)

\* the id every request carries
RequestId == 1

\* RpcMsg, were it to number the requests
RpcMsgCounting(method, args) ==
    JObj(<< <<(<<"jsonrpc">>), S("2.0")>>,
            <<(<<"method">>), S(method)>>,
            <<(<<"params">>), JArr(args)>>,
            <<(<<"id">>), JInt(writes + 1)>> >>)

\* msg = {"jsonrpc": "2.0", "method": method, "params": args, "id": 1}
RpcMsg(method, args) ==
    JObj(<< <<(<<"jsonrpc">>), S("2.0")>>,
            <<(<<"method">>), S(method)>>,
            <<(<<"params">>), JArr(args)>>,
            <<(<<"id">>), JInt(RequestId)>> >>)

\* RequestLine, were the newline left out
RequestLineBare(msg) == Dumps(msg)

\* (json.dumps(msg) + "\n").encode("utf-8")
RequestLine(msg) == Dumps(msg) \o <<"\n">>

\* a byte no UTF-8 text contains
BadByte == "0xFF"

\* bytes.decode("utf-8"): ok = FALSE stands for UnicodeDecodeError
Utf8Ok(b) == \A i \in 1..Len(b) : b[i] # BadByte

-----------------------------------------------------------------------------
(* Pipes *)

HasNewline(b) == \E i \in 1..Len(b) : b[i] = "\n"
FirstNewline(b) == CHOOSE i \in 1..Len(b) : b[i] = "\n" /\ \A j \in 1..(i - 1) : b[j] # "\n"

\* readline(): through the first newline, or everything at end of stream
LineOf(b) == IF HasNewline(b) THEN SubSeq(b, 1, FirstNewline(b)) ELSE b

\* the bytes of a tagged stream, and a stream of bytes all tagged n.  The
\* tag of a byte is bookkeeping of the model: the number of the request the
\* byte belongs to (requests are numbered 1, 2, ... in the order written),
\* or 0 for a byte the child wrote in answer to no request.
Bytes(p) == [i \in 1..Len(p) |-> p[i][1]]
Tagged(b, n) == [i \in 1..Len(b) |-> <<b[i], n>>]

\* the bytes of a line of the child's stdout carry, besides the tag, the
\* place of the line among the lines the child wrote: 1 for the first
Placed(b, n, k) == [i \in 1..Len(b) |-> <<b[i], n, k>>]

-----------------------------------------------------------------------------
(* The child process: a black box that reads request lines from its stdin  *)
(* and writes lines to its stdout.                                         *)

Compact(v) == Serialize(v, <<",">>, <<":">>) \o <<"\n">>

ResultObj(id, v) ==
    JObj(<< <<(<<"jsonrpc">>), S("2.0")>>, <<(<<"id">>), id>>, <<(<<"result">>), v>> >>)

ErrorBody == << <<(<<"code">>), JInt(-32601)>>, <<(<<"message">>), S("method not found")>> >>

ErrorObj(id, body) ==
    JObj(<< <<(<<"jsonrpc">>), S("2.0")>>, <<(<<"id">>), id>>,
            <<(<<"error">>), JObj(body)>> >>)

\* the id the child finds in a request line (null when it finds none)
IdOf(line) ==
    CHOOSE id \in
      { IF r.ok /\ HasKey(r.v, <<"id">>) THEN Get(r.v, <<"id">>) ELSE JNull
        : r \in {Loads(line)} } : TRUE

ReplyKinds ==
    { "result", "wrong_id", "error", "error_data", "echo", "not_json", "no_id", "both",
      "neither", "bad_utf8", "scalar" }

\* the line of each kind the child can write in answer to a request it has
\* read: req.line is the request line, req.id the id found in it
Reply(kind, req) ==
    CASE kind = "result"     -> Compact(ResultObj(req.id, S("hello")))
      [] kind = "wrong_id"   -> Compact(ResultObj(JInt(RequestId + 1), S("hello")))
      [] kind = "error"      -> Compact(ErrorObj(req.id, ErrorBody))
      [] kind = "error_data" ->
            Compact(ErrorObj(req.id,
                             Append(ErrorBody, <<(<<"data">>), JArr(<<S("echo")>>)>>)))
      [] kind = "echo"       -> req.line
      [] kind = "not_json"   -> <<"oops", "\n">>
      [] kind = "no_id"      ->
            Compact(JObj(<< <<(<<"jsonrpc">>), S("2.0")>>, <<(<<"result">>), S("hello")>> >>))
      [] kind = "both"       ->
            Compact(JObj(<< <<(<<"jsonrpc">>), S("2.0")>>, <<(<<"id">>), req.id>>,
                            <<(<<"result">>), S("hello")>>,
                            <<(<<"error">>), JObj(ErrorBody)>> >>))
      [] kind = "neither"    ->
            Compact(JObj(<< <<(<<"jsonrpc">>), S("2.0")>>, <<(<<"id">>), req.id>> >>))
      [] kind = "bad_utf8"   -> <<BadByte, "\n">>
      [] kind = "scalar"     -> Compact(JInt(5))

-----------------------------------------------------------------------------
(* Calls and their outcomes *)

NoCall ==
    [ wrapper |-> "", args |-> <<>>, attr |-> "", method |-> "", params |-> <<>>,
      line |-> <<>>, no |-> 0, afterEnd |-> FALSE, alone |-> FALSE, prev |-> "" ]

NoOutcome ==
    [ kind |-> "none", val |-> JNull, exc |-> "", line |-> <<>>, tag |-> 0, eof |-> FALSE,
      pos |-> 0 ]

Returned(v, line, tag, eof) ==
    [ kind |-> "return", val |-> v, exc |-> "", line |-> line, tag |-> tag, eof |-> eof,
      pos |-> 0 ]

Raised(exc, line, tag, eof) ==
    [ kind |-> "raise", val |-> JNull, exc |-> exc, line |-> line, tag |-> tag, eof |-> eof,
      pos |-> 0 ]

\* Tourist.__init__
Init ==
    /\ proc = [argv |-> <<"target/debug/tourist", "serve">>, stdin |-> "PIPE",
               stdout |-> "PIPE", spawned |-> 1]
    /\ wbuf = <<>>
    /\ stdinPipe = <<>>
    /\ stdoutPipe = <<>>
    /\ childIn = "open"
    /\ childOut = "open"
    /\ inbox = <<>>
    /\ pc = [t \in Callers |-> "idle"]
    /\ cur = [t \in Callers |-> NoCall]
    /\ outcome = [t \in Callers |-> NoOutcome]
    /\ writes = 0
    /\ reads = 0
    /\ extras = 0
    /\ wrote = 0
    /\ sawEnd = FALSE

Outstanding(t) == pc[t] \in {"written", "flushed"}

-----------------------------------------------------------------------------
(* The client's steps *)

\* RpcWrite, were each call to start a child of its own
RpcWriteSpawning(t, call) ==
    LET line == RequestLine(RpcMsg(call.method, call.params))
    IN  /\ wbuf' = wbuf \o Tagged(line, writes + 1)
        /\ writes' = writes + 1
        /\ pc' = [pc EXCEPT ![t] = "written"]
        /\ outcome' = [outcome EXCEPT ![t] = NoOutcome]
        /\ cur' = [u \in Callers |->
                     IF u = t
                     THEN [call EXCEPT !.line = line, !.no = writes + 1]
                     ELSE [cur[u] EXCEPT !.alone = cur[u].alone /\ ~Outstanding(u)]]
        /\ proc' = [proc EXCEPT !.spawned = proc.spawned + 1]

\* __rpc's first statements: build msg and write its line into the buffer
\* of stdin.  call is the call being made, with the method and the
\* arguments __rpc was given.
RpcWrite(t, call) ==
    LET line == RequestLine(RpcMsg(call.method, call.params))
    IN  /\ wbuf' = wbuf \o Tagged(line, writes + 1)
        /\ writes' = writes + 1
        /\ pc' = [pc EXCEPT ![t] = "written"]
        /\ outcome' = [outcome EXCEPT ![t] = NoOutcome]
        /\ cur' = [u \in Callers |->
                     IF u = t
                     THEN [call EXCEPT !.line = line, !.no = writes + 1]
                     ELSE [cur[u] EXCEPT !.alone = cur[u].alone /\ ~Outstanding(u)]]
        /\ UNCHANGED proc

\* tourist.<w>(*a) up to the write: the wrapper's body, then __rpc's first
\* statements; a wrapper that names an attribute the class lacks raises
Invoke(t, w, a) ==
    LET d    == Apply(w, a)
        call == [ wrapper |-> w, args |-> SubSeq(a, 1, Arity[w]), attr |-> d.attr,
                  method |-> d.method, params |-> d.args, line |-> <<>>, no |-> 0,
                  afterEnd |-> sawEnd,
                  alone |-> \A u \in Callers \ {t} : ~Outstanding(u),
                  prev |-> outcome[t].exc ]
    IN  /\ pc[t] = "idle"
        /\ writes < MaxCalls
        /\ IF d.attr \in Defined
           THEN RpcWrite(t, call)
           ELSE /\ cur' = [cur EXCEPT ![t] = call]
                /\ outcome' = [outcome EXCEPT
                                 ![t] = Raised("AttributeError", <<>>, 0, FALSE)]
                /\ UNCHANGED << proc, wbuf, writes, pc >>
        /\ UNCHANGED << stdinPipe, stdoutPipe, childIn, childOut, inbox, reads,
                        extras, wrote, sawEnd >>

\* Shutdown, were the class to define shutdown as closing both pipes
ShutdownClosing(t) ==
    /\ pc[t] = "idle"
    /\ cur' = [cur EXCEPT ![t] = [NoCall EXCEPT !.wrapper = "shutdown",
                                                !.attr = "shutdown",
                                                !.afterEnd = sawEnd,
                                                !.prev = outcome[t].exc]]
    /\ proc' = [proc EXCEPT !.stdin = "closed", !.stdout = "closed"]
    /\ outcome' = [outcome EXCEPT ![t] = Returned(JNull, <<>>, 0, FALSE)]
    /\ UNCHANGED << wbuf, stdinPipe, stdoutPipe, childIn, childOut, inbox, pc, writes,
                    reads, extras, wrote, sawEnd >>

\* tourist.shutdown(): class Tourist defines __init__, __rpc and the
\* wrappers and nothing else, so the attribute lookup raises AttributeError
\* and nothing is closed or waited for
Shutdown(t) ==
    /\ pc[t] = "idle"
    /\ "shutdown" \notin Wrappers
    /\ cur' = [cur EXCEPT ![t] = [NoCall EXCEPT !.wrapper = "shutdown",
                                                !.attr = "shutdown",
                                                !.afterEnd = sawEnd,
                                                !.prev = outcome[t].exc]]
    /\ outcome' = [outcome EXCEPT ![t] = Raised("AttributeError", <<>>, 0, FALSE)]
    /\ UNCHANGED << proc, wbuf, stdinPipe, stdoutPipe, childIn, childOut, inbox, pc,
                    writes, reads, extras, wrote, sawEnd >>

\* RpcFlush, were the flush to hold back the last byte of the buffer
RpcFlushPartial(t) ==
    /\ pc[t] = "written"
    /\ IF wbuf = <<>> \/ childIn = "open"
       THEN /\ stdinPipe' = stdinPipe \o SubSeq(wbuf, 1, Len(wbuf) - 1)
            /\ wbuf' = SubSeq(wbuf, Len(wbuf), Len(wbuf))
            /\ pc' = [pc EXCEPT ![t] = "flushed"]
            /\ UNCHANGED << outcome, sawEnd >>
       ELSE /\ pc' = [pc EXCEPT ![t] = "idle"]
            /\ outcome' = [outcome EXCEPT
                             ![t] = Raised("BrokenPipeError", <<>>, 0, FALSE)]
            /\ sawEnd' = TRUE
            /\ UNCHANGED << wbuf, stdinPipe >>
    /\ UNCHANGED << proc, stdoutPipe, childIn, childOut, inbox, cur, writes, reads,
                    extras, wrote >>

\* RpcFlush, were the flush to leave the buffer as it is
RpcFlushSkipping(t) ==
    /\ pc[t] = "written"
    /\ pc' = [pc EXCEPT ![t] = "flushed"]
    /\ UNCHANGED << proc, wbuf, stdinPipe, stdoutPipe, childIn, childOut, inbox, cur,
                    outcome, writes, reads, extras, wrote, sawEnd >>

\* RpcFlush, were __rpc to return after the flush without reading
RpcFlushReturning(t) ==
    /\ pc[t] = "written"
    /\ stdinPipe' = stdinPipe \o wbuf
    /\ wbuf' = <<>>
    /\ pc' = [pc EXCEPT ![t] = "idle"]
    /\ outcome' = [outcome EXCEPT ![t] = Returned(JNull, <<>>, 0, FALSE)]
    /\ UNCHANGED << proc, stdoutPipe, childIn, childOut, inbox, cur, writes, reads,
                    extras, wrote, sawEnd >>

\* self.proc.stdin.flush(): the buffer goes to the pipe; with bytes to send
\* and the child's end closed the write fails (EPIPE), the bytes stay in the
\* buffer and BrokenPipeError is raised; an empty buffer makes no write
RpcFlush(t) ==
    /\ pc[t] = "written"
    /\ IF wbuf = <<>> \/ childIn = "open"
       THEN /\ stdinPipe' = stdinPipe \o wbuf
            /\ wbuf' = <<>>
            /\ pc' = [pc EXCEPT ![t] = "flushed"]
            /\ UNCHANGED << outcome, sawEnd >>
       ELSE /\ pc' = [pc EXCEPT ![t] = "idle"]
            /\ outcome' = [outcome EXCEPT
                             ![t] = Raised("BrokenPipeError", <<>>, 0, FALSE)]
            /\ sawEnd' = TRUE
            /\ UNCHANGED << wbuf, stdinPipe >>
    /\ UNCHANGED << proc, stdoutPipe, childIn, childOut, inbox, cur, writes, reads,
                    extras, wrote >>

\* Decode, were it to hand the caller the result member of a response
DecodeUnwrapping(line, tag, eof) ==
    IF ~Utf8Ok(line) THEN Raised("UnicodeDecodeError", line, tag, eof)
    ELSE CHOOSE out \in
           { IF ~r.ok THEN Raised("JSONDecodeError", line, tag, eof)
             ELSE IF HasKey(r.v, <<"result">>)
                  THEN Returned(Get(r.v, <<"result">>), line, tag, eof)
             ELSE Returned(r.v, line, tag, eof)
             : r \in {Loads(line)} } : TRUE

\* Decode, were it to raise on a response that carries an error member
DecodeRaising(line, tag, eof) ==
    IF ~Utf8Ok(line) THEN Raised("UnicodeDecodeError", line, tag, eof)
    ELSE CHOOSE out \in
           { IF ~r.ok THEN Raised("JSONDecodeError", line, tag, eof)
             ELSE IF HasKey(r.v, <<"error">>) THEN Raised("RemoteError", line, tag, eof)
             ELSE Returned(r.v, line, tag, eof)
             : r \in {Loads(line)} } : TRUE

\* Decode, were it to check the response as the codec of the design does
DecodeChecking(line, tag, eof) ==
    IF ~Utf8Ok(line) THEN Raised("UnicodeDecodeError", line, tag, eof)
    ELSE CHOOSE out \in
           { IF r.ok /\ HasKey(r.v, <<"id">>)
                     /\ (HasKey(r.v, <<"result">>) # HasKey(r.v, <<"error">>))
             THEN Returned(r.v, line, tag, eof)
             ELSE Raised("JSONDecodeError", line, tag, eof)
             : r \in {Loads(line)} } : TRUE

\* Decode, were it to compare the id of the response with the id sent
DecodeMatchingId(line, tag, eof) ==
    IF ~Utf8Ok(line) THEN Raised("UnicodeDecodeError", line, tag, eof)
    ELSE CHOOSE out \in
           { IF ~r.ok THEN Raised("JSONDecodeError", line, tag, eof)
             ELSE IF HasKey(r.v, <<"id">>) /\ Get(r.v, <<"id">>) # JInt(RequestId)
                  THEN Raised("ValueError", line, tag, eof)
             ELSE Returned(r.v, line, tag, eof)
             : r \in {Loads(line)} } : TRUE

\* Decode, were it to give None for the empty line of an ended stream
DecodeEmptyNone(line, tag, eof) ==
    IF ~Utf8Ok(line) THEN Raised("UnicodeDecodeError", line, tag, eof)
    ELSE IF line = <<>> THEN Returned(JNull, line, tag, eof)
    ELSE CHOOSE out \in
           { IF r.ok THEN Returned(r.v, line, tag, eof)
             ELSE Raised("JSONDecodeError", line, tag, eof)
             : r \in {Loads(line)} } : TRUE

\* what the return statement makes of the line readline() gave:
\* json.loads(line.decode("utf-8")), the decoded value itself
Decode(line, tag, eof) ==
    IF ~Utf8Ok(line) THEN Raised("UnicodeDecodeError", line, tag, eof)
    ELSE CHOOSE out \in
           { IF r.ok THEN Returned(r.v, line, tag, eof)
             ELSE Raised("JSONDecodeError", line, tag, eof)
             : r \in {Loads(line)} } : TRUE

\* Consume, were the read to discard all the bytes that are there
ConsumeAll(p, n) == <<>>

\* Consume, were the line read left in the stream
ConsumeNothing(p, n) == p

\* readline() takes the n bytes of its line out of the stream
Consume(p, n) == SubSeq(p, n + 1, Len(p))

\* RpcReadline, were readline to wait for a newline even at end of stream
RpcReadlineNoEof(t) ==
    /\ pc[t] = "flushed"
    /\ HasNewline(Bytes(stdoutPipe))
    /\ \E line \in {LineOf(Bytes(stdoutPipe))} :
         /\ stdoutPipe' = Consume(stdoutPipe, Len(line))
         /\ outcome' = [outcome EXCEPT
                          ![t] = [Decode(line, stdoutPipe[1][2], FALSE)
                                    EXCEPT !.pos = stdoutPipe[1][3]]]
    /\ pc' = [pc EXCEPT ![t] = "idle"]
    /\ reads' = reads + 1
    /\ UNCHANGED << proc, wbuf, stdinPipe, childIn, childOut, inbox, cur, writes,
                    extras, wrote, sawEnd >>

\* return json.loads(self.proc.stdout.readline().decode("utf-8")): readline
\* blocks until the pipe holds a newline or the child's end is closed
RpcReadline(t) ==
    /\ pc[t] = "flushed"
    /\ HasNewline(Bytes(stdoutPipe)) \/ childOut = "closed"
    /\ \E line \in {LineOf(Bytes(stdoutPipe))} :
         LET n   == Len(line)
             tag == IF n > 0 THEN stdoutPipe[1][2] ELSE 0
             pos == IF n > 0 THEN stdoutPipe[1][3] ELSE 0
             eof == ~HasNewline(line)
         IN /\ stdoutPipe' = Consume(stdoutPipe, n)
           /\ outcome' = [outcome EXCEPT
                            ![t] = [Decode(line, tag, eof) EXCEPT !.pos = pos]]
           /\ sawEnd' = (sawEnd \/ eof)
    /\ pc' = [pc EXCEPT ![t] = "idle"]
    /\ reads' = reads + 1
    /\ UNCHANGED << proc, wbuf, stdinPipe, childIn, childOut, inbox, cur, writes,
                    extras, wrote >>

-----------------------------------------------------------------------------
(* The child's steps *)

\* the child reads one line of its stdin; it holds the request to answer it
\* (a child that has closed its stdout answers nothing and holds nothing)
ChildRead ==
    /\ childIn = "open"
    /\ HasNewline(Bytes(stdinPipe))
    /\ \E line \in {LineOf(Bytes(stdinPipe))} :
           /\ inbox' = IF childOut = "open"
                       THEN Append(inbox, [line |-> line, id |-> IdOf(line),
                                           no |-> stdinPipe[1][2]])
                       ELSE inbox
           /\ stdinPipe' = SubSeq(stdinPipe, Len(line) + 1, Len(stdinPipe))
    /\ UNCHANGED << proc, wbuf, stdoutPipe, childIn, childOut, pc, cur, outcome,
                    writes, reads, extras, wrote, sawEnd >>

RemoveAt(q, i) == SubSeq(q, 1, i - 1) \o SubSeq(q, i + 1, Len(q))

\* the child answers the i-th request it holds, in any order, with one line
ChildRespond(i, kind) ==
    /\ childOut = "open"
    /\ i \in 1..Len(inbox)
    /\ stdoutPipe' = stdoutPipe \o Placed(Reply(kind, inbox[i]), inbox[i].no, wrote + 1)
    /\ wrote' = wrote + 1
    /\ inbox' = RemoveAt(inbox, i)
    /\ UNCHANGED << proc, wbuf, stdinPipe, childIn, childOut, pc, cur, outcome,
                    writes, reads, extras, sawEnd >>

\* the child writes a line that answers no request
ChildExtra ==
    /\ childOut = "open"
    /\ extras < MaxExtra
    /\ stdoutPipe' = stdoutPipe \o
                        Placed(Compact(ResultObj(JInt(RequestId), S("extra"))), 0, wrote + 1)
    /\ wrote' = wrote + 1
    /\ extras' = extras + 1
    /\ UNCHANGED << proc, wbuf, stdinPipe, childIn, childOut, inbox, pc, cur, outcome,
                    writes, reads, sawEnd >>

\* the child closes its stdout and keeps running
ChildCloseStdout ==
    /\ childOut = "open"
    /\ childOut' = "closed"
    /\ inbox' = <<>>
    /\ UNCHANGED << proc, wbuf, stdinPipe, stdoutPipe, childIn, pc, cur, outcome,
                    writes, reads, extras, wrote, sawEnd >>

\* the child exits: both its ends close; what it wrote stays readable, what
\* it did not read is lost
ChildExit ==
    /\ childIn = "open"
    /\ childIn' = "closed"
    /\ childOut' = "closed"
    /\ stdinPipe' = <<>>
    /\ inbox' = <<>>
    /\ UNCHANGED << proc, wbuf, stdoutPipe, pc, cur, outcome, writes, reads, extras, wrote,
                    sawEnd >>

\* the child dies while answering: only the first byte of the line is
\* written (cut = "early"), or all of it but the newline (cut = "late")
ChildCrashMidWrite(i, kind, cut) ==
    /\ childIn = "open"
    /\ childOut = "open"
    /\ i \in 1..Len(inbox)
    /\ LET whole == Reply(kind, inbox[i])
           n     == IF cut = "early" THEN 1 ELSE Len(whole) - 1
       IN  stdoutPipe' = stdoutPipe \o Placed(SubSeq(whole, 1, n), inbox[i].no, wrote + 1)
    /\ childIn' = "closed"
    /\ childOut' = "closed"
    /\ stdinPipe' = <<>>
    /\ inbox' = <<>>
    /\ UNCHANGED << proc, wbuf, pc, cur, outcome, writes, reads, extras, wrote, sawEnd >>

\* the kinds of line the child can be writing when it dies
CrashKinds == {"result"}

\* a child that answers each request it holds with a line of one of kinds
Child(kinds) ==
    \/ ChildRead
    \/ \E i \in 1..MaxCalls, kind \in kinds : ChildRespond(i, kind)
    \/ ChildCloseStdout
    \/ ChildExit
    \/ \E i \in 1..MaxCalls, kind \in CrashKinds, cut \in {"early", "late"} :
            ChildCrashMidWrite(i, kind, cut)

-----------------------------------------------------------------------------
(* Specifications *)

\* one caller, as in the __main__ block, calling any wrapper; the child
\* answers with a result or echoes the request
EchoKinds == {"result", "echo"}

Next ==
    \/ \E w \in Wrappers, a \in ArgTuples : Invoke("main", w, a)
    \/ RpcFlush("main")
    \/ RpcReadline("main")
    \/ Child(EchoKinds)

Spec == Init /\ [][Next]_vars

\* one caller and a child that answers with a line of any kind
FewWrappers == {"list_tours", "create_tour", "refresh_tour"}
FewArgs == {a \in ArgTuples : a[1].t = "str"}

ReplyNext ==
    \/ \E w \in FewWrappers, a \in FewArgs : Invoke("main", w, a)
    \/ RpcFlush("main")
    \/ RpcReadline("main")
    \/ Child(ReplyKinds)

ReplySpec == Init /\ [][ReplyNext]_vars

\* several threads share the client, and the child also writes lines that
\* answer no request
ConcWrappers == {"list_tours", "create_tour"}
ConcKinds == {"result"}

ConcNext ==
    \/ \E t \in Callers, w \in ConcWrappers, a \in FewArgs : Invoke(t, w, a)
    \/ \E t \in Callers : RpcFlush(t)
    \/ \E t \in Callers : RpcReadline(t)
    \/ Child(ConcKinds)
    \/ ChildExtra

ConcSpec == Init /\ [][ConcNext]_vars

\* several threads share the client and the child ends at any moment; a
\* thread that can take its next step takes it
EndWrappers == {"list_tours"}
EndKinds == {"result", "not_json"}

EndNext ==
    \/ \E t \in Callers, w \in EndWrappers, a \in FewArgs : Invoke(t, w, a)
    \/ \E t \in Callers : RpcFlush(t)
    \/ \E t \in Callers : RpcReadline(t)
    \/ Child(EndKinds)

EndSpec ==
    /\ Init
    /\ [][EndNext]_vars
    /\ \A t \in Callers : WF_vars(RpcFlush(t)) /\ WF_vars(RpcReadline(t))

\* one caller, and a child that also writes lines that answer no request
SeqKinds == {"result", "wrong_id", "not_json"}

SeqNext ==
    \/ \E w \in ConcWrappers, a \in FewArgs : Invoke("main", w, a)
    \/ RpcFlush("main")
    \/ RpcReadline("main")
    \/ Child(SeqKinds)
    \/ ChildExtra

SeqSpec == Init /\ [][SeqNext]_vars

\* the child does with a request it holds one of the things that end the
\* wait for its answer: it answers, closes its stdout, exits or dies
ChildSettles(kinds) ==
    /\ inbox # <<>>
    /\ \/ \E i \in 1..MaxCalls, kind \in kinds : ChildRespond(i, kind)
       \/ ChildCloseStdout
       \/ ChildExit
       \/ \E i \in 1..MaxCalls, kind \in CrashKinds, cut \in {"early", "late"} :
               ChildCrashMidWrite(i, kind, cut)

\* one caller that takes its next step when it can, and a child that reads
\* every request line and answers each request it holds or else closes its
\* stdout
LiveSpec ==
    /\ Init
    /\ [][SeqNext]_vars
    /\ WF_vars(RpcFlush("main")) /\ WF_vars(RpcReadline("main"))
    /\ WF_vars(ChildRead)
    /\ WF_vars(ChildSettles(SeqKinds))

\* one caller that also tries to shut the client down
ShutdownNext ==
    \/ \E w \in ConcWrappers, a \in FewArgs : Invoke("main", w, a)
    \/ RpcFlush("main")
    \/ RpcReadline("main")
    \/ Shutdown("main")
    \/ Child(EndKinds)

ShutdownSpec == Init /\ [][ShutdownNext]_vars

-----------------------------------------------------------------------------
(* Properties.  What a line says is read off the line itself: Said(t) is   *)
(* the JSON text of the line caller t's readline returned.                 *)

Completed(t) == pc[t] = "idle" /\ outcome[t].kind # "none"
GotLine(t) == Completed(t) /\ outcome[t].line # <<>>
Said(t) == Loads(outcome[t].line)
ValidJson(t) == Utf8Ok(outcome[t].line) /\ Said(t).ok

IsResponse(v) ==
    /\ v.t = "obj"
    /\ HasKey(v, <<"jsonrpc">>) /\ Get(v, <<"jsonrpc">>) = S("2.0")
    /\ HasKey(v, <<"id">>)
IsResult(v) == IsResponse(v) /\ HasKey(v, <<"result">>) /\ ~HasKey(v, <<"error">>)
IsError(v) ==
    /\ v.t = "obj"
    /\ HasKey(v, <<"error">>)
    /\ Get(v, <<"error">>).t = "obj"
    /\ HasKey(Get(v, <<"error">>), <<"code">>)
    /\ HasKey(Get(v, <<"error">>), <<"message">>)

HelloLine == Compact(ResultObj(JInt(RequestId), S("hello")))

\* C1, as stated: a call whose response line is a well-formed response
\* carrying a result returns exactly the value of that result member.
C1_ReturnsResultValue ==
    \A t \in Callers :
        (GotLine(t) /\ ValidJson(t) /\ IsResult(Said(t).v))
            => /\ outcome[t].kind = "return"
               /\ outcome[t].val = Get(Said(t).v, <<"result">>)

\* C1, amended: a call whose response line is a well-formed response
\* carrying a result returns the whole decoded response object, of which
\* the result is the member "result"; it does not return the bare result.
C1_ReturnsResponseObject ==
    \A t \in Callers :
        (GotLine(t) /\ ValidJson(t) /\ IsResult(Said(t).v))
            => /\ outcome[t].kind = "return"
               /\ IsResult(outcome[t].val)
               /\ Get(outcome[t].val, <<"result">>) = Get(Said(t).v, <<"result">>)
               /\ Get(outcome[t].val, <<"id">>) = Get(Said(t).v, <<"id">>)
               /\ outcome[t].val # Get(Said(t).v, <<"result">>)

\* the scenario of the specification: the child answers
\* {"jsonrpc":"2.0","id":1,"result":"hello"} and the call has returned
C1_Witness ==
    /\ Completed("main")
    /\ outcome["main"].line = HelloLine
    /\ outcome["main"].val = ResultObj(JInt(RequestId), S("hello"))

\* C2, as stated: a call whose decoded response carries an error object
\* fails (with RemoteError); the response is never a normal return value.
C2_RaisesRemoteError ==
    \A t \in Callers :
        (GotLine(t) /\ ValidJson(t) /\ IsError(Said(t).v))
            => outcome[t].kind = "raise" /\ outcome[t].exc = "RemoteError"

\* C2, amended: a call whose decoded response carries an error object
\* raises nothing; it returns the decoded response object, whose member
\* "error" carries the code, the message and the data when present.
C2_ReturnsErrorResponse ==
    \A t \in Callers :
        (GotLine(t) /\ ValidJson(t) /\ IsError(Said(t).v))
            => /\ outcome[t].kind = "return"
               /\ IsError(outcome[t].val)
               /\ Get(outcome[t].val, <<"error">>) = Get(Said(t).v, <<"error">>)

\* the scenario of the specification: the child answers with error -32601,
\* "method not found", and the call has returned that response
C2_Witness ==
    /\ Completed("main")
    /\ outcome["main"].line = Compact(ErrorObj(JInt(RequestId), ErrorBody))
    /\ outcome["main"].kind = "return"
    /\ Get(outcome["main"].val, <<"error">>) = JObj(ErrorBody)

\* the id the request of caller t carries on the wire
SentId(t) == IdOf(cur[t].line)

NotJson(t) == GotLine(t) /\ ~ValidJson(t)

\* valid JSON that the decode of the design refuses: no id, or both or
\* neither of result and error
Incomplete(t) ==
    /\ GotLine(t) /\ ValidJson(t)
    /\ \/ ~HasKey(Said(t).v, <<"id">>)
       \/ HasKey(Said(t).v, <<"result">>) = HasKey(Said(t).v, <<"error">>)

CanCallAgain(t) ==
    /\ pc[t] = "idle"
    /\ proc.spawned = 1
    /\ writes < MaxCalls => ENABLED (\E w \in Wrappers, a \in ArgTuples : Invoke(t, w, a))

\* C5, as stated: a response line that is not valid JSON, or has no id, or
\* has both or neither of result and error, makes the call fail; it is never
\* returned as a successful response.
C5_MalformedFails ==
    \A t \in Callers : (NotJson(t) \/ Incomplete(t)) => outcome[t].kind = "raise"

\* C5, amended: a response line that is not valid JSON makes the call fail,
\* with json.JSONDecodeError (or UnicodeDecodeError for bytes that are not
\* UTF-8); a line of valid JSON without an id, or with both or neither of
\* result and error, is returned to the caller as the decoded value.  In
\* both cases the client is left able to make a following call.
C5_OnlyInvalidJsonFails ==
    \A t \in Callers :
        /\ NotJson(t) => /\ outcome[t].kind = "raise"
                         /\ outcome[t].exc \in {"JSONDecodeError", "UnicodeDecodeError"}
        /\ Incomplete(t) => outcome[t].kind = "return" /\ outcome[t].val = Said(t).v
        /\ (NotJson(t) \/ Incomplete(t)) => CanCallAgain(t)

\* a call failed on a line that is not JSON, and the call made after it on
\* the same client has returned the child's answer
C5_Witness ==
    /\ cur["main"].prev = "JSONDecodeError"
    /\ Completed("main")
    /\ outcome["main"].kind = "return"
    /\ outcome["main"].line = HelloLine

\* a well-formed response whose id is not the id of the request
Mismatch(t) ==
    /\ GotLine(t) /\ ValidJson(t)
    /\ IsResponse(Said(t).v)
    /\ HasKey(Said(t).v, <<"result">>) # HasKey(Said(t).v, <<"error">>)
    /\ Get(Said(t).v, <<"id">>) # SentId(t)

\* C8, as stated: with one caller, a well-formed response whose id differs
\* from the id of the request just written makes the call fail.
C8_IdMismatchFails ==
    \A t \in Callers : Mismatch(t) => outcome[t].kind = "raise"

\* C8, amended: with one caller, a well-formed response whose id differs
\* from the id of the request just written is returned to the caller like
\* any other response; the id is not compared.
C8_IdMismatchReturned ==
    \A t \in Callers :
        Mismatch(t) => /\ outcome[t].kind = "return"
                       /\ outcome[t].val = Said(t).v
                       /\ Get(outcome[t].val, <<"id">>) # SentId(t)

\* the request carried id 1, the line read carried id 2, and the call returned
C8_Witness ==
    /\ Completed("main")
    /\ SentId("main") = JInt(1)
    /\ outcome["main"].line = Compact(ResultObj(JInt(2), S("hello")))
    /\ outcome["main"].kind = "return"

\* C4, as stated: once a call has met end of stream or a broken pipe, a
\* later call fails at once, writing nothing to stdin and reading nothing.
C4_ClosedTouchesNothing ==
    \A t \in Callers :
        cur[t].afterEnd => /\ pc[t] = "idle"
                           /\ cur[t].no = 0
                           /\ outcome[t].kind = "raise"

\* C4, amended: the client keeps no Closed state.  Once a call has met end
\* of stream or a broken pipe, every later call still writes its request
\* and flushes, and reads when the flush succeeds; it then fails, with
\* BrokenPipeError at the flush or json.JSONDecodeError at the empty read,
\* and never returns a value.
C4_LaterCallsFail ==
    \A t \in Callers :
        cur[t].afterEnd =>
            /\ cur[t].attr \in Defined => cur[t].no > 0
            /\ Completed(t) =>
                 /\ outcome[t].kind = "raise"
                 /\ outcome[t].exc \in {"BrokenPipeError", "JSONDecodeError", "AttributeError"}
                 /\ outcome[t].exc = "JSONDecodeError" => outcome[t].eof

\* a call made after end of stream was met has written, read and failed
C4_Witness ==
    /\ cur["main"].afterEnd
    /\ cur["main"].no = MaxCalls
    /\ Completed("main")
    /\ outcome["main"].exc = "JSONDecodeError"
    /\ reads = MaxCalls

\* C9: every wrapper sends one request whose method is the wrapper's name
\* and whose params are all the wrapper's arguments, in declaration order.
C9_WrappersPassThrough ==
    \A t \in Callers :
        cur[t].wrapper # "" =>
            \A r \in {Loads(cur[t].line)} :
                /\ cur[t].no > 0
                /\ r.ok
                /\ Get(r.v, <<"method">>) = S(cur[t].wrapper)
                /\ Get(r.v, <<"params">>) = JArr(cur[t].args)

\* the bytes of request n in the buffer of stdin
Written(n) == Bytes(SelectSeq(wbuf, LAMBDA e : e[2] = n))

\* C10: every message written to the child's stdin is one JSON object with
\* the members jsonrpc = "2.0", method = the method given, params = the
\* arguments given, in order, and an integer id, followed by one newline;
\* no newline comes before that one.
C10_OneObjectPerLine ==
    \A t \in Callers :
        pc[t] = "written" =>
            \A b \in {Written(cur[t].no)} :
                /\ Len(b) > 1
                /\ b[Len(b)] = "\n"
                /\ ~HasNewline(SubSeq(b, 1, Len(b) - 1))
                /\ \A r \in {Loads(SubSeq(b, 1, Len(b) - 1))} :
                      /\ r.ok
                      /\ r.v.t = "obj"
                      /\ Len(r.v.members) = 4
                      /\ HasKey(r.v, <<"jsonrpc">>) /\ Get(r.v, <<"jsonrpc">>) = S("2.0")
                      /\ HasKey(r.v, <<"method">>)
                      /\ Get(r.v, <<"method">>) = S(cur[t].method)
                      /\ HasKey(r.v, <<"params">>)
                      /\ Get(r.v, <<"params">>) = JArr(cur[t].params)
                      /\ HasKey(r.v, <<"id">>) /\ Get(r.v, <<"id">>).t = "int"

\* a request has been written whose first argument holds a newline
C10_Witness ==
    /\ pc["main"] = "written"
    /\ cur["main"].method = "view_stop"
    /\ cur["main"].params = << JStr(<<"My tour", "\n", "2">>), JInt(5) >>
    /\ Len(Written(cur["main"].no)) > 1

\* caller t's call met the end of the child: its flush met the broken pipe,
\* or its readline met end of stream
MetEnd(t) == Completed(t) /\ (outcome[t].exc = "BrokenPipeError" \/ outcome[t].eof)

\* ... and its readline found no byte before end of stream
ReadNothing(t) == Completed(t) /\ outcome[t].eof /\ outcome[t].line = <<>>

\* C3, as stated: a call outstanding when the child's stdout reaches end of
\* stream or its stdin pipe is broken fails with ProcessTerminated.
C3_FailsProcessTerminated ==
    \A t \in Callers :
        MetEnd(t) => outcome[t].kind = "raise" /\ outcome[t].exc = "ProcessTerminated"

\* C3, amended: once the child's stdout is closed, every outstanding call
\* eventually completes, none blocks forever.  A call whose flush meets the
\* broken pipe fails with BrokenPipeError and a call whose readline finds no
\* byte before end of stream fails with json.JSONDecodeError (there is no
\* ProcessTerminated); neither returns a value.  A call that finds bytes the
\* child wrote before it ended gets the decoding of those bytes.
C3_OutstandingCallsEnd ==
    /\ [](\A t \in Callers :
            /\ outcome[t].exc = "BrokenPipeError" =>
                  outcome[t].kind = "raise" /\ childIn = "closed"
            /\ ReadNothing(t) =>
                  outcome[t].kind = "raise" /\ outcome[t].exc = "JSONDecodeError"
            /\ MetEnd(t) => childOut = "closed")
    /\ \A t \in Callers : (childOut = "closed" /\ Outstanding(t)) ~> ~Outstanding(t)

\* both callers had a call outstanding when the end was first met: one met
\* the broken pipe, the other read nothing
C3_Witness ==
    /\ ~cur["main"].afterEnd /\ ~cur["worker"].afterEnd
    /\ outcome["main"].exc = "BrokenPipeError"
    /\ ReadNothing("worker")
    /\ outcome["worker"].exc = "JSONDecodeError"

\* the line caller t read answers a request
GotAnswer(t) == GotLine(t) /\ outcome[t].tag # 0

\* C6, as stated: each caller receives the response to its own request,
\* never the response to the request of another caller.
C6_OwnResponse ==
    \A t \in Callers : GotAnswer(t) => outcome[t].tag = cur[t].no

\* C6, amended: a read takes the oldest unread line, whatever request it
\* answers and whatever id it carries.  A caller receives the response to
\* its own request when no other call is outstanding on the client from its
\* write to its read and the child writes no line that answers no request;
\* with several calls outstanding, a caller can receive the response to the
\* request of another.
C6_OwnResponseWhenAlone ==
    \A t \in Callers :
        (GotAnswer(t) /\ cur[t].alone /\ extras = 0) => outcome[t].tag = cur[t].no

\* the two callers called one after the other and each got the answer to
\* its own request
C6_Witness ==
    /\ GotAnswer("main") /\ GotAnswer("worker")
    /\ cur["main"].alone /\ cur["worker"].alone /\ extras = 0
    /\ cur["worker"].no = 1 /\ outcome["worker"].tag = 1
    /\ cur["main"].no = 2 /\ outcome["main"].tag = 2

\* C7, as stated: the ids of the requests written and not yet answered are
\* pairwise distinct.
C7_DistinctIds ==
    \A t, u \in Callers :
        (t # u /\ Outstanding(t) /\ Outstanding(u)) => SentId(t) # SentId(u)

\* C7, amended: every request carries the id 1, so the requests of calls
\* outstanding together all carry the same id; the ids of the outstanding
\* requests are distinct only while at most one call is outstanding.
C7_ConstantId ==
    \A t \in Callers : Outstanding(t) => SentId(t) = JInt(1)

\* two calls are outstanding together, for different requests
C7_Witness ==
    /\ Outstanding("main") /\ Outstanding("worker")
    /\ cur["main"].no # cur["worker"].no
    /\ cur["main"].method # cur["worker"].method
    /\ SentId("main") = SentId("worker")

\* the line caller t read is the request line it wrote, echoed by the child
ReadEcho(t) == GotLine(t) /\ cur[t].no > 0 /\ outcome[t].line = cur[t].line

\* C11: when the child echoes back the request line it received, decoding
\* the line the client reads reproduces the id and the method of the
\* request that was encoded.
C11_EchoRoundTrip ==
    \A t \in Callers :
        ReadEcho(t) =>
            /\ outcome[t].kind = "return"
            /\ outcome[t].val.t = "obj"
            /\ HasKey(outcome[t].val, <<"id">>)
            /\ Get(outcome[t].val, <<"id">>) = JInt(RequestId)
            /\ HasKey(outcome[t].val, <<"method">>)
            /\ Get(outcome[t].val, <<"method">>) = S(cur[t].method)

\* the echo of a request whose arguments hold a quote, a backslash, a dict
\* and a list has been read and decoded
C11_Witness ==
    /\ ReadEcho("main")
    /\ cur["main"].method = "create_stop"
    /\ cur["main"].params[2] = JStr(<<"\"", "A stop", "\\">>)
    /\ outcome["main"].kind = "return"
    /\ Get(outcome["main"].val, <<"params">>) = JArr(cur["main"].params)

\* the number of calls outstanding on the client
NumOutstanding == Cardinality({t \in Callers : Outstanding(t)})

\* only the thread of the __main__ block has called the client
OnlyMainCalls == cur["worker"] = NoCall

\* a flush of the thread of the __main__ block has failed
FlushFailed ==
    outcome["main"].exc = "BrokenPipeError" \/ cur["main"].prev = "BrokenPipeError"

\* C12, as stated: on one client at most one call is outstanding at any
\* time, also when two threads invoke calls on it concurrently.
C12_OneOutstanding == NumOutstanding <= 1

\* C12, amended: with a single calling thread at most one call is
\* outstanding at any time, and as long as no flush has failed a request
\* line is written only after a line has been read for each request written
\* before it, because __rpc returns only after its readline.  The client
\* enforces nothing: two threads that call it concurrently are neither
\* rejected nor queued, and both requests can be written before a line is
\* read.
C12_OneThreadSequential ==
    (OnlyMainCalls /\ ~FlushFailed) =>
        /\ NumOutstanding <= 1
        /\ writes - reads = NumOutstanding

\* the only calling thread has its second call outstanding, written after
\* the line of its first call was read
C12_Witness ==
    /\ OnlyMainCalls /\ ~FlushFailed
    /\ Outstanding("main")
    /\ writes = 2 /\ reads = 1
    /\ cur["main"].prev = ""

\* caller t has invoked shutdown, and the invocation has ended
DidShutdown(t) == Completed(t) /\ cur[t].wrapper = "shutdown"

\* C13, as stated: shutdown closes both pipes to the child and raises no
\* error, the first time and the second.
C13_ShutdownCloses ==
    \A t \in Callers :
        DidShutdown(t) => /\ outcome[t].kind = "return"
                          /\ proc.stdin = "closed"
                          /\ proc.stdout = "closed"

\* C13, amended: the client offers no shutdown operation.  Invoking
\* shutdown raises AttributeError, the first time and every later time, and
\* leaves the process handle and both pipes as construction made them:
\* nothing closes the pipes or waits for the child.
C13_NoShutdown ==
    \A t \in Callers :
        DidShutdown(t) => /\ outcome[t].kind = "raise"
                          /\ outcome[t].exc = "AttributeError"
                          /\ proc.stdin = "PIPE"
                          /\ proc.stdout = "PIPE"
                          /\ proc.spawned = 1
                          /\ pc[t] = "idle"

\* shutdown has been invoked a second time, after a call was answered
C13_Witness ==
    /\ DidShutdown("main")
    /\ cur["main"].prev = "AttributeError"
    /\ reads = 1
    /\ outcome["main"].exc = "AttributeError"

\* caller t's call is at its read step, or has gone through it
AtOrPastRead(t) ==
    \/ pc[t] = "flushed"
    \/ Completed(t) /\ outcome[t].exc \notin {"BrokenPipeError", "AttributeError"}

\* C14: within a call the steps happen in the order write, flush, read: a
\* call is at its read step only when its complete request line, the
\* newline included, has been written and has left the buffer of stdin.
C14_WriteFlushRead ==
    \A t \in Callers :
        AtOrPastRead(t) =>
            /\ cur[t].no > 0
            /\ Len(cur[t].line) > 1
            /\ cur[t].line[Len(cur[t].line)] = "\n"
            /\ Written(cur[t].no) = <<>>
            /\ wbuf # <<>> => \A i \in 1..Len(wbuf) : wbuf[i][2] > cur[t].no

\* the two callers are both at their read step and the buffer is empty:
\* both request lines went to the child
C14_Witness ==
    /\ pc["main"] = "flushed" /\ pc["worker"] = "flushed"
    /\ wbuf = <<>>
    /\ cur["main"].no = 1 /\ cur["worker"].no = 2
    /\ Len(stdinPipe) = Len(cur["main"].line) + Len(cur["worker"].line)

\* caller t's call has gone through its read step
PastRead(t) == Completed(t) /\ outcome[t].exc \notin {"BrokenPipeError", "AttributeError"}

\* b is one line: its last byte is a newline, and its only one
OneLine(b) ==
    /\ Len(b) > 0
    /\ b[Len(b)] = "\n"
    /\ ~HasNewline(SubSeq(b, 1, Len(b) - 1))

\* the requests whose bytes are still in the buffer of stdin: written and
\* not yet flushed, or kept there by a flush that failed
InBuffer == {wbuf[i][2] : i \in 1..Len(wbuf)}

\* the callers whose request has left the buffer and who have not read yet
AwaitingRead ==
    {t \in Callers : Outstanding(t) /\ cur[t].no \notin InBuffer}

\* C15, as stated: each call that reaches its read step consumes exactly
\* one line from the child's stdout, whether it then succeeds or fails in
\* decoding.
C15_OneLinePerCall ==
    \A t \in Callers : PastRead(t) => OneLine(outcome[t].line)

\* C15, amended: each call writes exactly one request line, and each call
\* that reaches its read step makes exactly one readline, which consumes
\* exactly one line when the child's stdout holds one and, at end of
\* stream, what is left of it: a partial line or nothing.  So with one
\* calling thread the number of readlines made equals the number of request
\* lines written, less the requests still in the buffer of stdin (not yet
\* flushed, or kept by a flush that failed) and less the call waiting to
\* read.
C15_OneReadPerRequest ==
    /\ reads + Cardinality(AwaitingRead) + Cardinality(InBuffer) = writes
    /\ \A t \in Callers :
          /\ cur[t].no > 0 => OneLine(cur[t].line)
          /\ PastRead(t) =>
                IF outcome[t].eof
                THEN ~HasNewline(outcome[t].line) /\ childOut = "closed"
                ELSE OneLine(outcome[t].line)

\* two calls have read, the second failed in decoding the line it consumed,
\* and two lines were read for two requests written
C15_Witness ==
    /\ PastRead("main")
    /\ outcome["main"].exc = "JSONDecodeError" /\ ~outcome["main"].eof
    /\ OneLine(outcome["main"].line)
    /\ reads = 2 /\ writes = 2

\* the process handle __init__ creates
Constructed ==
    [argv |-> <<"target/debug/tourist", "serve">>, stdin |-> "PIPE", stdout |-> "PIPE",
     spawned |-> 1]

\* C16: exactly one child process is spawned per client, at construction,
\* with the fixed command line; no call or wrapper spawns another process,
\* replaces the process handle or closes its pipes, so after any sequence
\* of calls the process handle is the one created at construction.
C16_OneProcess ==
    /\ proc = Constructed
    /\ proc.spawned = 1
    /\ proc.argv = <<"target/debug/tourist", "serve">>

\* two calls have been made through wrappers and both were answered, and
\* the process handle is still the one constructed
C16_Witness ==
    /\ proc = Constructed
    /\ writes = 2 /\ reads = 2
    /\ Completed("main")
    /\ cur["main"].wrapper = "index_repository"
    /\ cur["main"].prev = ""
    /\ outcome["main"].kind = "return"

\* C17, as stated: the k-th call that reaches its read step gets exactly
\* the k-th line the child has written to its stdout.
C17_KthCallKthLine ==
    \A t \in Callers :
        PastRead(t) => OneLine(outcome[t].line) /\ outcome[t].pos = reads

\* C17, amended: with one calling thread, the k-th call that reaches its
\* read step and finds a complete line there gets the decoding of exactly
\* the k-th line the child has written to its stdout, whatever id the line
\* carries and whatever request it answers: the value when the line is
\* JSON, an exception when it is not.  When the child has written no line
\* that answers no request, the k-th call gets the answer to its own
\* request; a line that answers no request moves the lines the later calls
\* get by one place, so that a call can get the answer to an earlier
\* request, never to a later one.  At end of stream a call gets what is
\* left instead, a partial line or nothing.
C17_ByPositionOnly ==
    \A t \in Callers :
        PastRead(t) =>
            IF outcome[t].eof
            THEN ~OneLine(outcome[t].line) /\ childOut = "closed"
            ELSE /\ OneLine(outcome[t].line)
                 /\ outcome[t].pos = reads
                 /\ outcome[t].kind = "return" =>
                        ValidJson(t) /\ outcome[t].val = Said(t).v
                 /\ outcome[t].kind = "raise" => ~ValidJson(t)
                 /\ outcome[t].tag <= cur[t].no
                 /\ (extras = 0 /\ outcome[t].pos = cur[t].no) =>
                        outcome[t].tag = cur[t].no

\* the child wrote one line that answers no request, and the second call
\* has got, as the second line, the answer to the first request
C17_Witness ==
    /\ PastRead("main")
    /\ cur["main"].no = 2 /\ reads = 2
    /\ outcome["main"].pos = 2 /\ outcome["main"].tag = 1
    /\ extras = 1
    /\ outcome["main"].kind = "return"

\* caller t waits in readline for a line that is not there yet
WaitsForLine(t) ==
    pc[t] = "flushed" /\ ~HasNewline(Bytes(stdoutPipe)) /\ childOut = "open"

\* the child has a request line to read or a request to answer
ChildHasWork == HasNewline(Bytes(stdinPipe)) \/ inbox # <<>>

\* C18: if the child reads every request line and answers each request
\* with one line or else closes its stdout, every call of a sequential
\* caller eventually completes, by returning or raising; and the client
\* never waits for a line in a state where the child is waiting for the
\* client.
C18_CallsComplete ==
    /\ [](\A t \in Callers : WaitsForLine(t) => ChildHasWork)
    /\ \A t \in Callers : Outstanding(t) ~> (Completed(t) /\ ~Outstanding(t))

\* the second call waits in readline while the child holds its request
C18_Witness ==
    /\ WaitsForLine("main")
    /\ cur["main"].no = 2
    /\ reads = 1
    /\ Len(inbox) = 1 /\ inbox[1].no = 2
    /\ stdinPipe = <<>>

=============================================================================
